---- MODULE Spec2Model ----
(***************************************************************************)
(* Model of tuya_vacuum_map_extractor/main.py: download, parse_map,        *)
(* parse_path, flip, render_layout and get_map.                            *)
(*                                                                         *)
(* Python values are modelled as follows.                                  *)
(*  - A dict whose keys may be absent is a record with a field "keys"      *)
(*    (the set of keys present) next to one field per possible key.        *)
(*  - A call that may raise returns a record with a field "ok"; when ok    *)
(*    is FALSE the field "err" names the exception class.                  *)
(*  - A PIL image is a record: its size, the raster it was built from,     *)
(*    what was drawn on it and the sequence of transposes/rotations        *)
(*    applied. Pixel(img, x, y) computes the colour of one pixel from      *)
(*    that description, following PIL's coordinate arithmetic.             *)
(***************************************************************************)
EXTENDS Integers, Sequences, FiniteSets, TLC

VARIABLES
    pc,            \* position of the running call
    settings,      \* get_map argument
    colors,        \* get_map argument
    urls,          \* get_map argument, replaced by the link provider's reply
    calls,         \* calls made to collaborators so far, in order
    map_link,      \* local of get_map, with the index of the entry it is from
    response,      \* local of get_map: the map blob response
    parsed,        \* what parse_map returned: header and mapDataArr
    image,         \* local of get_map
    rendered,      \* the image render_layout returned
    path_link,     \* local of get_map, with the index of the entry it is from
    path_response, \* local of get_map: the path blob response
    result,        \* what the call returned or raised
    log,           \* messages written with _LOGGER.error, in order
    other          \* a second get_map call that is not running now: its
                   \* locals, or Idle when there is no second call

vars == << pc, settings, colors, urls, calls, map_link, response, parsed,
           image, rendered, path_link, path_response, result, log, other >>

-----------------------------------------------------------------------------
(* Bounds *)

MaxDim == 2         \* raster width and height range over 1..MaxDim
MaxLinks == 2       \* longest link list
MaxPathPts == 2     \* longest decoded path

(* Program constants *)

TargetLongEdge == 1080

-----------------------------------------------------------------------------
(* Colours are RGB triples. *)

Black == << 0, 0, 0 >>
DefaultPathColor == << 0, 255, 0 >>
DockFill == << 0, 255, 0 >>

(* A dict lookup with default: d.get(k, dflt) *)
Get(d, k, dflt) == IF k \in d.keys THEN d[k] ELSE dflt

NoImage == [ w |-> 0, h |-> 0, bw |-> 0, bh |-> 0, cells |-> << >>,
             line |-> << >>, lineColor |-> Black, dock |-> << >>,
             ops |-> << >> ]

-----------------------------------------------------------------------------
(* PIL *)

(* Image.fromarray(array): a w x h image whose pixel (x, y) is the array's
   entry in row y, column x. *)
fromarray(array) ==
    [ w |-> array.w, h |-> array.h, bw |-> array.w, bh |-> array.h,
      cells |-> array.cells, line |-> << >>, lineColor |-> Black,
      dock |-> << >>, ops |-> << >> ]

(* image.resize((W, H), resample=Image.BOX) of an image nothing was drawn on.
   Pixel reads the source cell under each target pixel. *)
resize(img, W, H) == [ img EXCEPT !.w = W, !.h = H ]

(* image.transpose(method): the size is kept (both methods are flips). *)
transpose(img, method) ==
    [ img EXCEPT !.ops = Append(@, [ op |-> method, angle |-> 0 ]) ]

(* An image.rotate that turns by a quarter whatever the angle *)
rotate_QuarterTurn(img, angle) ==
    [ img EXCEPT !.ops = Append(@, [ op |-> "rotate", angle |-> 90 ]) ]

(* image.rotate(angle): no expand, so the size is kept. *)
rotate(img, angle) ==
    [ img EXCEPT !.ops = Append(@, [ op |-> "rotate", angle |-> angle ]) ]

(* draw.line(path, fill, width) *)
DrawLine(img, path, fill) == [ img EXCEPT !.line = path, !.lineColor = fill ]

(* draw.ellipse([(x-10, y-10), (x+10, y+10)], ...): recorded by its centre *)
DrawEllipse(img, x, y) == [ img EXCEPT !.dock = << x, y >> ]

(* The vertices of a flat coordinate list [x0, y0, x1, y1, ...] *)
Vertices(flat) ==
    { << flat[2 * i - 1], flat[2 * i] >> : i \in 1..(Len(flat) \div 2) }

(* Colour of pixel (x, y) before any transpose or rotation: the dock marker
   is drawn last, over the polyline, over the (resized) raster. *)
BasePixel(img, x, y) ==
    IF img.dock # << >> /\ img.dock = << x, y >> THEN DockFill
    ELSE IF << x, y >> \in Vertices(img.line) THEN img.lineColor
    ELSE img.cells[((y * img.bh) \div img.h) * img.bw
                   + ((x * img.bw) \div img.w) + 1]

(* Where pixel (x, y) of the output of one operation comes from in its
   input; << >> when it comes from outside the input (filled black).
   Image.rotate takes angle % 360; 180 and, for square images, 90 and 270
   are transposes; otherwise the affine transform about the centre is
   sampled at pixel centres with nearest-neighbour resampling. *)
SourceOf(op, w, h, x, y) ==
    IF op.op = "FLIP_LEFT_RIGHT" THEN << w - 1 - x, y >>
    ELSE IF op.op = "FLIP_TOP_BOTTOM" THEN << x, h - 1 - y >>
    ELSE LET a == op.angle % 360
             \* twice the source coordinates, for 90 and 270
             x90 == (w + h) - (2 * y + 1)
             y90 == (2 * x + 1) + (h - w)
             x270 == (2 * y + 1) + (w - h)
             y270 == (w + h) - (2 * x + 1)
             In(x2, y2) == /\ x2 >= 0 /\ x2 \div 2 < w
                           /\ y2 >= 0 /\ y2 \div 2 < h
         IN  IF a = 0 THEN << x, y >>
             ELSE IF a = 180 THEN << w - 1 - x, h - 1 - y >>
             ELSE IF a = 90
                  THEN IF In(x90, y90) THEN << x90 \div 2, y90 \div 2 >>
                       ELSE << >>
             ELSE IF a = 270
                  THEN IF In(x270, y270) THEN << x270 \div 2, y270 \div 2 >>
                       ELSE << >>
             ELSE << >>

RECURSIVE PixelAfter(_, _, _, _)
PixelAfter(img, n, x, y) ==
    IF n = 0 THEN BasePixel(img, x, y)
    ELSE LET src == SourceOf(img.ops[n], img.w, img.h, x, y)
         IN  IF src = << >> THEN Black
             ELSE PixelAfter(img, n - 1, src[1], src[2])

(* The colour of pixel (x, y) of the image *)
Pixel(img, x, y) == PixelAfter(img, Len(img.ops), x, y)

-----------------------------------------------------------------------------
(* Render settings: the dict get_map and flip read with settings.get *)

SettingKeys == { "path_enabled", "rotate", "flip_vertical", "flip_horizontal" }

EmptySettings ==
    [ keys |-> {}, path_enabled |-> FALSE, rotate |-> 0,
      flip_vertical |-> FALSE, flip_horizontal |-> FALSE ]

RotateValues == { 0, 90, 180, 270, -90, 45 }

Settings ==
    { EmptySettings } \cup
    [ keys : { SettingKeys }, path_enabled : BOOLEAN, rotate : RotateValues,
      flip_vertical : BOOLEAN, flip_horizontal : BOOLEAN ]

-----------------------------------------------------------------------------
(* flip(headers, image, settings), lines 83-100.  fail names the PIL call
   that raises during this call ("none": no call raises); a call that is
   not made cannot raise.  logged: the except clause ran. *)

(* A flip that rotates after the two flips instead of before them *)
flip_RotatesLast(headers, img, st, fail) ==
    LET rot == Get(st, "rotate", 0)
        flip_vertical == Get(st, "flip_vertical", FALSE)
        flip_horizontal == Get(st, "flip_horizontal", FALSE)
        doRotate == rot \in { 90, 180, -90, 270 }
        i1 == IF flip_vertical THEN transpose(img, "FLIP_LEFT_RIGHT") ELSE img
        i2 == IF flip_horizontal THEN transpose(i1, "FLIP_TOP_BOTTOM") ELSE i1
        i3 == IF doRotate THEN rotate(i2, rot) ELSE i2
    IN  [ headers |-> headers, image |-> IF fail = "none" THEN i3 ELSE img,
          logged |-> fail # "none" ]

(* A flip that swaps width and height in the header when it turns the
   image by a quarter *)
flip_TurnsHeader(headers, img, st, fail) ==
    LET rot == Get(st, "rotate", 0)
        flip_vertical == Get(st, "flip_vertical", FALSE)
        flip_horizontal == Get(st, "flip_horizontal", FALSE)
        doRotate == rot \in { 90, 180, -90, 270 }
        turned == IF rot \in { 90, -90, 270 }
                  THEN [ headers EXCEPT !.width = headers.height,
                                        !.height = headers.width ]
                  ELSE headers
        i1 == IF doRotate THEN rotate(img, rot) ELSE img
        i2 == IF flip_vertical THEN transpose(i1, "FLIP_LEFT_RIGHT") ELSE i1
        i3 == IF flip_horizontal THEN transpose(i2, "FLIP_TOP_BOTTOM") ELSE i2
    IN  IF doRotate /\ fail = "rotate"
        THEN [ headers |-> headers, image |-> img, logged |-> TRUE ]
        ELSE IF flip_vertical /\ fail = "flip_vertical"
        THEN [ headers |-> turned, image |-> i1, logged |-> TRUE ]
        ELSE IF flip_horizontal /\ fail = "flip_horizontal"
        THEN [ headers |-> turned, image |-> i2, logged |-> TRUE ]
        ELSE [ headers |-> turned, image |-> i3, logged |-> FALSE ]

flip(headers, img, st, fail) ==
    LET rot == Get(st, "rotate", 0)
        flip_vertical == Get(st, "flip_vertical", FALSE)
        flip_horizontal == Get(st, "flip_horizontal", FALSE)
        doRotate == rot \in { 90, 180, -90, 270 }
        i1 == IF doRotate THEN rotate(img, rot) ELSE img
        i2 == IF flip_vertical THEN transpose(i1, "FLIP_LEFT_RIGHT") ELSE i1
        i3 == IF flip_horizontal THEN transpose(i2, "FLIP_TOP_BOTTOM") ELSE i2
    IN  IF doRotate /\ fail = "rotate"
        THEN [ headers |-> headers, image |-> img, logged |-> TRUE ]
        ELSE IF flip_vertical /\ fail = "flip_vertical"
        THEN [ headers |-> headers, image |-> i1, logged |-> TRUE ]
        ELSE IF flip_horizontal /\ fail = "flip_horizontal"
        THEN [ headers |-> headers, image |-> i2, logged |-> TRUE ]
        ELSE [ headers |-> headers, image |-> i3, logged |-> FALSE ]

(* The PIL calls flip makes for these settings *)
FlipCallsMade(st) ==
    { "none" }
    \cup (IF Get(st, "rotate", 0) \in { 90, 180, -90, 270 }
          THEN { "rotate" } ELSE {})
    \cup (IF Get(st, "flip_vertical", FALSE) THEN { "flip_vertical" } ELSE {})
    \cup (IF Get(st, "flip_horizontal", FALSE)
          THEN { "flip_horizontal" } ELSE {})

-----------------------------------------------------------------------------
(* Map headers.  header["version"] is the list [n] in a binary header and the
   string "custom0" in a structured one. *)

ListVersion(n) == [ isList |-> TRUE, n |-> n, s |-> "" ]
StrVersion(s) == [ isList |-> FALSE, n |-> 0, s |-> s ]

PileKeys == { "pileX", "pileY" }

(* Keys only a structured header carries *)
GeometryKeys == { "mapResolution", "x_min", "y_min" }

(* Dock positions a payload may carry: none, or (1, 1) *)
Piles == { << >>, << 1, 1 >> }

Header(version, width, height, pile) ==
    [ version |-> version, width |-> width, height |-> height,
      keys |-> (IF pile = << >> THEN {} ELSE PileKeys)
               \cup (IF version.isList THEN {} ELSE GeometryKeys),
      pileX |-> IF pile = << >> THEN 0 ELSE pile[1],
      pileY |-> IF pile = << >> THEN 0 ELSE pile[2],
      mapResolution |-> 1, x_min |-> 0 - 1, y_min |-> 0 - 1 ]

NoHeader == Header(StrVersion(""), 0, 0, << >>)

(* The cell codes of a width x height raster in which every cell has its
   own code, so that every pixel of the rendered image is recognisable. *)
IndexGrid(width, height) == [ i \in 1..(width * height) |-> i - 1 ]

(* The same for a Rich raster, whose codes carry a room id: cell codes that
   no Legacy raster has, so that the grid tells which decoder made it. *)
RoomGrid(width, height) == [ i \in 1..(width * height) |-> 60 + (i - 1) ]

-----------------------------------------------------------------------------
(* Responses of the blob fetcher.  A response is described by what the
   decoders make of its body:
     type            what response.json() returns: "invalid" (it raises
                     JSONDecodeError), a "dict", a "list", a "str" or a
                     "scalar" (number, true, false, null)
     has_result      'result' in data   (a key of a dict, an element of a
                     list, a substring of a str)
     result_is_list  isinstance(data['result'], list)
     has_map_data    'map_data' in data
     struct_ok       decode_custom0 succeeds on the body
     header_ok       decode_header succeeds on the first 48 hex characters
     version         the version byte decode_header reads
     body_ok         decode_v0 / decode_v1 succeeds on the body
     width, height, pile   the geometry the successful decoder reports *)

Dims == 1..MaxDim

JsonShapes ==
    { [ type |-> "invalid", has_result |-> FALSE, result_is_list |-> FALSE,
        has_map_data |-> FALSE ],
      [ type |-> "scalar", has_result |-> FALSE, result_is_list |-> FALSE,
        has_map_data |-> FALSE ] }
    \cup { [ type |-> "dict", has_result |-> r[1], result_is_list |-> r[2],
             has_map_data |-> m ] :
           r \in { << FALSE, FALSE >>, << TRUE, FALSE >>, << TRUE, TRUE >> },
           m \in BOOLEAN }
    \cup { [ type |-> t, has_result |-> r[1], result_is_list |-> FALSE,
             has_map_data |-> r[2] ] :
           t \in { "list", "str" },
           r \in { << FALSE, FALSE >>, << TRUE, FALSE >>, << FALSE, TRUE >> } }

(* Shapes on which parse_map consults the structured decoder *)
Recognized(j) ==
    j.type = "dict" /\ ((j.has_result /\ j.result_is_list) \/ j.has_map_data)

Geometries ==
    { [ width |-> w, height |-> h, pile |-> p ] :
      w \in Dims, h \in Dims, p \in Piles }

NoGeometry == [ width |-> 0, height |-> 0, pile |-> << >> ]

BinaryOutcomes ==
    { [ header_ok |-> FALSE, version |-> 0, body_ok |-> FALSE,
        geo |-> NoGeometry ],
      [ header_ok |-> TRUE, version |-> 2, body_ok |-> FALSE,
        geo |-> NoGeometry ] }
    \cup { [ header_ok |-> TRUE, version |-> v, body_ok |-> FALSE,
             geo |-> NoGeometry ] : v \in { 0, 1 } }
    \cup { [ header_ok |-> TRUE, version |-> v, body_ok |-> TRUE,
             geo |-> g ] : v \in { 0, 1 }, g \in Geometries }

MakeResponse(j, struct_ok, b, g) ==
    [ type |-> j.type, has_result |-> j.has_result,
      result_is_list |-> j.result_is_list, has_map_data |-> j.has_map_data,
      struct_ok |-> struct_ok, header_ok |-> b.header_ok,
      version |-> b.version, body_ok |-> b.body_ok,
      width |-> g.width, height |-> g.height, pile |-> g.pile ]

(* Shapes on which the structured attempt ends without a value of
   response.json() being indexed with a string it cannot be indexed with *)
Indexable(j) == j.type \notin { "list", "str" } \/ ~(j.has_result \/ j.has_map_data)

HeaderFails == CHOOSE b \in BinaryOutcomes : ~b.header_ok

(* The geometries bodies of shape j come with: every geometry for a body
   that is no JSON and for a dict with "map_data" alone, one geometry for
   the other shapes, which differ from these two in parse_map only. *)
GeometriesOf(j) ==
    IF j.type = "invalid" \/ (j.type = "dict" /\ j.has_map_data /\ ~j.has_result)
    THEN Geometries
    ELSE { [ width |-> MaxDim, height |-> 1, pile |-> << 1, 1 >> ] }

(* A body the structured decoder is consulted on is described by that
   decoder's outcome, any other body by the binary decoders' outcome. *)
MapResponses ==
    { MakeResponse(j, FALSE, HeaderFails, NoGeometry) :
      j \in { j \in JsonShapes : Recognized(j) \/ ~Indexable(j) } }
    \cup UNION { { MakeResponse(j, TRUE, HeaderFails, g) : g \in GeometriesOf(j) } :
                 j \in { j \in JsonShapes : Recognized(j) } }
    \cup UNION { { MakeResponse(j, FALSE, b, b.geo) :
                   b \in { b \in BinaryOutcomes :
                             b.body_ok => b.geo \in GeometriesOf(j) } } :
                 j \in { j \in JsonShapes : ~Recognized(j) /\ Indexable(j) } }

NoResponse ==
    MakeResponse(CHOOSE j \in JsonShapes : j.type = "invalid", FALSE,
                 HeaderFails, NoGeometry)

-----------------------------------------------------------------------------
(* The decoders of v0.py, v1.py, custom0.py and common.py: each reports
   what the response says it makes of the body. *)

Decoded(ok, err, header, data) ==
    [ ok |-> ok, err |-> err, header |-> header, data |-> data ]

decode_custom0(resp) ==
    IF resp.struct_ok
    THEN Decoded(TRUE, "", Header(StrVersion("custom0"), resp.width,
                                  resp.height, resp.pile),
                 IndexGrid(resp.width, resp.height))
    ELSE Decoded(FALSE, "KeyError", NoHeader, << >>)

decode_header(resp) ==
    IF resp.header_ok
    THEN Decoded(TRUE, "", Header(ListVersion(resp.version), resp.width,
                                  resp.height, resp.pile), << >>)
    ELSE Decoded(FALSE, "IndexError", NoHeader, << >>)

decode_v0(resp, header) ==
    IF resp.body_ok
    THEN Decoded(TRUE, "", header, IndexGrid(header.width, header.height))
    ELSE Decoded(FALSE, "IndexError", NoHeader, << >>)

decode_v1(resp, header) ==
    IF resp.body_ok
    THEN Decoded(TRUE, "", header, RoomGrid(header.width, header.height))
    ELSE Decoded(FALSE, "IndexError", NoHeader, << >>)

-----------------------------------------------------------------------------
(* parse_map(response), lines 29-61 *)

(* What parse_map returns or raises.  fallback: "Falling back to binary
   parsing" was logged; logged: "Binary parsing failed" was logged;
   cause: the exception the raised one was raised from. *)
Parsed(ok, err, cause, header, data, fallback, logged) ==
    [ ok |-> ok, err |-> err, cause |-> cause, header |-> header,
      mapDataArr |-> data, fallback |-> fallback, logged |-> logged ]

NotParsed == Parsed(FALSE, "", "", NoHeader, << >>, FALSE, FALSE)

(* key in data, for data = response.json() *)
JsonIn(resp, key) ==
    IF resp.type = "scalar" THEN "TypeError"
    ELSE IF key = "result" THEN (IF resp.has_result THEN "yes" ELSE "no")
    ELSE (IF resp.has_map_data THEN "yes" ELSE "no")

(* data[key] where key in data: only a dict can be indexed with a string *)
JsonItem(resp, key) == IF resp.type = "dict" THEN "value" ELSE "TypeError"

(* Lines 31-44: the decoder's result, or the exception the try block ends
   with. *)
StructuredAttempt(resp) ==
    IF resp.type = "invalid" THEN Decoded(FALSE, "JSONDecodeError", NoHeader, << >>)
    ELSE IF JsonIn(resp, "result") = "TypeError"
    THEN Decoded(FALSE, "TypeError", NoHeader, << >>)
    ELSE IF JsonIn(resp, "result") = "yes" /\ JsonItem(resp, "result") = "TypeError"
    THEN Decoded(FALSE, "TypeError", NoHeader, << >>)
    ELSE IF JsonIn(resp, "result") = "yes" /\ resp.result_is_list
    THEN decode_custom0(resp)
    ELSE IF JsonIn(resp, "map_data") = "yes"
    THEN IF JsonItem(resp, "map_data") = "TypeError"
         THEN Decoded(FALSE, "TypeError", NoHeader, << >>)
         ELSE decode_custom0(resp)
    ELSE Decoded(FALSE, "JSONDecodeError", NoHeader, << >>)

(* A parse_map that decodes every version but 1 as version 0 *)
BinaryAttempt_DefaultV0(resp) ==
    LET h == decode_header(resp)
    IN  IF ~h.ok THEN h
        ELSE IF h.header.version = ListVersion(1) THEN decode_v1(resp, h.header)
        ELSE Decoded(TRUE, "", h.header, IndexGrid(h.header.width, h.header.height))

(* Lines 48-56: the binary attempt, before the except clause of line 57 *)
BinaryAttempt(resp) ==
    LET h == decode_header(resp)
    IN  IF ~h.ok THEN h
        ELSE IF h.header.version = ListVersion(0) THEN decode_v0(resp, h.header)
        ELSE IF h.header.version = ListVersion(1) THEN decode_v1(resp, h.header)
        ELSE Decoded(FALSE, "NotSupportedError", NoHeader, << >>)

(* Lines 46-59: the except JSONDecodeError clause *)
BinaryFallback(resp) ==
    LET b == BinaryAttempt(resp)
    IN  IF b.ok
        THEN Parsed(TRUE, "", "", b.header, b.data, TRUE, FALSE)
        ELSE Parsed(FALSE, "ValueError: Failed to parse map data in any supported format",
                    b.err, NoHeader, << >>, TRUE, TRUE)

parse_map(resp) ==
    LET s == StructuredAttempt(resp)
    IN  IF s.ok THEN Parsed(TRUE, "", "", s.header, s.data, FALSE, FALSE)
        ELSE IF s.err = "JSONDecodeError" THEN BinaryFallback(resp)
        ELSE Parsed(FALSE, s.err, "", NoHeader, << >>, FALSE, FALSE)

-----------------------------------------------------------------------------
(* render_layout(raw_map, header, colors), lines 102-129 *)

(* to_array_custom0 / to_array_v0 / to_array_v1: one palette colour per
   cell.  The three rasterizers colour the same code differently, so the
   image tells which one drew it. *)
to_array(variant, pixellist, width, height, palette) ==
    [ w |-> width, h |-> height,
      cells |-> [ i \in 1..Len(pixellist) |-> << pixellist[i] + 1, variant, 0 >> ] ]

protoVer(header) ==
    IF header.version.isList THEN ToString(header.version.n)
    ELSE header.version.s

Rendered(ok, err, img) == [ ok |-> ok, err |-> err, image |-> img ]

(* A render_layout that uses the Legacy rasterizer for both binary
   versions *)
render_layout_LegacyForBinary(raw_map, header, palette, fails) ==
    LET v == protoVer(header)
    IN  IF v \notin { "custom0", "0", "1" }
        THEN Rendered(FALSE, "NotSupportedError", NoImage)
        ELSE IF fails THEN Rendered(FALSE, "ValueError", NoImage)
        ELSE Rendered(TRUE, "",
                 fromarray(to_array(IF v = "custom0" THEN 2 ELSE 0,
                                    raw_map, header.width, header.height,
                                    palette)))

(* fails: the rasterizer or Image.fromarray raises *)
render_layout(raw_map, header, palette, fails) ==
    LET width == header.width
        height == header.height
        v == protoVer(header)
    IN  IF v \notin { "custom0", "0", "1" }
        THEN Rendered(FALSE, "NotSupportedError", NoImage)
        ELSE IF fails THEN Rendered(FALSE, "ValueError", NoImage)
        ELSE Rendered(TRUE, "",
                 fromarray(to_array(IF v = "custom0" THEN 2
                                    ELSE IF v = "0" THEN 0 ELSE 1,
                                    raw_map, width, height, palette)))

-----------------------------------------------------------------------------
(* Path responses.  json: response.json() succeeds; ok: the path decoder
   the body is given to succeeds; pts: the points it decodes. *)

(* The i-th sample of a decoded path: the corners of the unit square in
   turn, (0,0), (1,0), (1,1), (0,1), ... *)
PathSample(i) == << (i \div 2) % 2, ((i - 1) \div 2) % 2 >>

PathOf(n) == [ i \in 1..n |-> PathSample(i) ]

PathResponses ==
    { [ json |-> j, ok |-> FALSE, pts |-> << >> ] : j \in BOOLEAN }
    \cup { [ json |-> j, ok |-> TRUE, pts |-> PathOf(n) ] :
           j \in BOOLEAN, n \in 0..MaxPathPts }

NoPathResponse == [ json |-> FALSE, ok |-> FALSE, pts |-> << >> ]

(* map_to_image(point, resolution, x_min, y_min) of custom0.py *)
map_to_image(point, resolution, x_min, y_min) ==
    << (point[1] - x_min) \div resolution, (point[2] - y_min) \div resolution >>

(* _format_path_point({'x': x, 'y': y}, False) of v1.py *)
format_path_point(x, y) == << x, y >>

PathData(ok, err, pts) == [ ok |-> ok, err |-> err, pts |-> pts ]

(* decode_path_custom0(data, header) of custom0.py *)
decode_path_custom0(resp, header) ==
    IF ~resp.ok \/ ~(GeometryKeys \subseteq header.keys)
    THEN PathData(FALSE, "KeyError", << >>)
    ELSE PathData(TRUE, "",
             [ i \in 1..Len(resp.pts) |->
                 map_to_image(resp.pts[i], header.mapResolution,
                              header.x_min, header.y_min) ])

(* decode_path_v1(data) of v1.py *)
decode_path_v1(resp) ==
    IF ~resp.ok THEN PathData(FALSE, "IndexError", << >>)
    ELSE PathData(TRUE, "", resp.pts)

(* A parse_path that scales by its default, scale=2.0, not by the scale it
   is given *)
ScaledCoords_Default(path_data, scale) ==
    [ k \in 1..(2 * Len(path_data)) |->
        path_data[(k + 1) \div 2][IF k % 2 = 1 THEN 1 ELSE 2] * 2 ]

(* Lines 76-81: every coordinate of every point times scale, in order *)
ScaledCoords(path_data, scale) ==
    [ k \in 1..(2 * Len(path_data)) |->
        path_data[(k + 1) \div 2][IF k % 2 = 1 THEN 1 ELSE 2] * scale ]

(* parse_path(response, scale, header), lines 63-81.  logged: "Path parsing
   failed" was logged. *)
PathParsed(ok, err, coords, logged) ==
    [ ok |-> ok, err |-> err, coords |-> coords, logged |-> logged ]

parse_path(resp, scale, header) ==
    IF resp.json
    THEN LET d == decode_path_custom0(resp, header)
         IN  IF d.ok THEN PathParsed(TRUE, "", ScaledCoords(d.pts, scale), FALSE)
             ELSE PathParsed(FALSE, d.err, << >>, FALSE)
    ELSE LET d == decode_path_v1(resp)
         IN  IF d.ok THEN PathParsed(TRUE, "", ScaledCoords(d.pts, scale), FALSE)
             ELSE PathParsed(TRUE, "", << >>, TRUE)

-----------------------------------------------------------------------------
(* Colour palettes: the colors argument of get_map *)

Palettes ==
    { [ keys |-> {}, path_color |-> Black ],
      [ keys |-> { "path_color" }, path_color |-> << 255, 0, 0 >> ] }

-----------------------------------------------------------------------------
(* The path branch of get_map after the path blob was fetched, lines
   190-225.  fail names the call that raises ("none": no library call
   does); parse_path raises when the path response makes it. *)

Composited(img, logged) == [ image |-> img, logged |-> logged ]

(* Lines 206-217: the dock position in the pixels of the resized image *)
DockPoint(header, scale) ==
    LET x == header.pileX
        y == header.pileY
        point == IF header.version \in { ListVersion(0), ListVersion(1) }
                 THEN format_path_point(x, y)
                 ELSE map_to_image(<< x, y >>, header.mapResolution,
                                   header.x_min, header.y_min)
    IN  << point[1] * scale, point[2] * scale >>

HasDock(header) == "pileX" \in header.keys /\ "pileY" \in header.keys

composite(img, header, palette, path_resp, fail) ==
    LET scale == TargetLongEdge \div img.w
        resized == resize(img, img.w * scale, img.h * scale)
        path == parse_path(path_resp, scale, header)
        lined == DrawLine(resized, path.coords,
                          Get(palette, "path_color", DefaultPathColor))
        dock == DockPoint(header, scale)
        docked == DrawEllipse(lined, dock[1], dock[2])
    IN  IF fail = "resize" THEN Composited(img, TRUE)
        ELSE IF ~path.ok THEN Composited(resized, TRUE)
        ELSE IF path.coords = << >> THEN Composited(resized, FALSE)
        ELSE IF fail = "line" THEN Composited(resized, TRUE)
        ELSE IF ~HasDock(header) THEN Composited(lined, FALSE)
        ELSE IF fail = "format_point" THEN Composited(lined, TRUE)
        ELSE IF fail = "ellipse" THEN Composited(lined, TRUE)
        ELSE Composited(docked, FALSE)

(* The calls composite makes, i.e. the values of fail that have an effect *)
CompositeCallsMade(img, header, path_resp) ==
    LET path == parse_path(path_resp, TargetLongEdge \div img.w, header)
        drawn == path.ok /\ path.coords # << >>
    IN  { "none", "resize" }
        \cup (IF drawn THEN { "line" } ELSE {})
        \cup (IF drawn /\ HasDock(header)
              THEN { "format_point", "ellipse" } ELSE {})

-----------------------------------------------------------------------------
(* Link lists.  An entry of link["result"] / urls["links"] is a dict with a
   "map_url" key (has = TRUE), a dict without one, or a value that is no
   container at all (bad = TRUE), on which  "map_url" in item  raises. *)

Urls == { "", "A", "B" }

Entries ==
    { [ bad |-> FALSE, has |-> TRUE, map_url |-> u ] : u \in Urls }
    \cup { [ bad |-> FALSE, has |-> FALSE, map_url |-> "" ],
           [ bad |-> TRUE, has |-> FALSE, map_url |-> "" ] }

RECURSIVE SeqsUpTo(_, _)
SeqsUpTo(S, n) ==
    IF n = 0 THEN { << >> }
    ELSE LET shorter == SeqsUpTo(S, n - 1)
         IN  shorter \cup { Append(q, e) : q \in shorter, e \in S }

LinkLists == SeqsUpTo(Entries, MaxLinks)

(* The urls argument: {} (or None), or a dict with "links" *)
NoUrls == [ keys |-> {}, links |-> << >> ]
UrlsOf(links) == [ keys |-> { "links", "time" }, links |-> links ]

(* next((item["map_url"] for item in links[skip:] if "map_url" in item), None)
   at: the index in links of the entry the value was taken from, 0 if None *)
Link(ok, err, url, at) == [ ok |-> ok, err |-> err, url |-> url, at |-> at ]

first_map_url(links, skip) ==
    LET hits == { i \in (skip + 1)..Len(links) : links[i].bad \/ links[i].has }
        first == CHOOSE i \in hits : \A j \in hits : i <= j
    IN  IF hits = {} THEN Link(TRUE, "", "", 0)
        ELSE IF links[first].bad THEN Link(FALSE, "TypeError", "", 0)
        ELSE Link(TRUE, "", links[first].map_url, first)

(* What get_download_link does: raise, or return a dict whose "result" is
   missing, empty or no list (links = << >>), or a non-empty list. *)
LinkReplies ==
    { [ ok |-> FALSE, links |-> << >> ] }
    \cup { [ ok |-> TRUE, links |-> l ] : l \in LinkLists }

-----------------------------------------------------------------------------
(* get_map, lines 131-231, one action per stage *)

Call(fn, arg) == [ fn |-> fn, arg |-> arg ]

NoResult ==
    [ kind |-> "none", header |-> NoHeader, image |-> NoImage,
      err |-> "", cause |-> "" ]

Returned(header, img) ==
    [ kind |-> "return", header |-> header, image |-> img,
      err |-> "", cause |-> "" ]

Raised(err, cause) ==
    [ kind |-> "raise", header |-> NoHeader, image |-> NoImage,
      err |-> err, cause |-> cause ]

NoLink == Link(TRUE, "", "", 0)

(* A get_map whose outer except clause re-raises the exception it caught *)
Fail_Reraise(e, messages) ==
    /\ pc' = "failed"
    /\ result' = Raised(e, "")
    /\ log' = log \o messages \o << "Map processing failed" >>

(* Lines 229-231: an exception e reaches the outer except clause *)
Fail(e, messages) ==
    /\ pc' = "failed"
    /\ result' = Raised("ValueError: Failed to process map data", e)
    /\ log' = log \o messages \o << "Map processing failed" >>

(* Lines 141-161: defaults, and the link provider when urls is empty *)
ResolveLinks ==
    /\ pc = "start"
    /\ IF urls.keys # {}
       THEN /\ pc' = "select"
            /\ UNCHANGED << urls, calls, result, log >>
       ELSE \E reply \in LinkReplies :
            /\ calls' = Append(calls, Call("get_download_link", ""))
            /\ IF ~reply.ok
               THEN /\ Fail("RequestException", << >>)
                    /\ UNCHANGED urls
               ELSE IF reply.links = << >>
               THEN /\ Fail("ValueError: Invalid API response format",
                            << "Invalid link response structure" >>)
                    /\ UNCHANGED urls
               ELSE /\ urls' = UrlsOf(reply.links)
                    /\ pc' = "select"
                    /\ UNCHANGED << result, log >>
    /\ UNCHANGED << other, settings, colors, map_link, response, parsed, image,
                    rendered, path_link, path_response >>

(* Lines 164-171 *)
SelectMapLink ==
    /\ pc = "select"
    /\ LET l == first_map_url(urls.links, 0)
       IN  IF ~l.ok
           THEN Fail(l.err, << >>) /\ UNCHANGED map_link
           ELSE IF l.url = ""
           THEN /\ Fail("ValueError: No map URL available",
                        << "No map URL found in response" >>)
                /\ UNCHANGED map_link
           ELSE /\ map_link' = l
                /\ pc' = "download"
                /\ UNCHANGED << result, log >>
    /\ UNCHANGED << other, settings, colors, urls, calls, response, parsed, image,
                    rendered, path_link, path_response >>

(* A get_map that fetches the map blob a second time *)
DownloadMap_Twice ==
    /\ pc = "download"
    /\ calls' = calls \o << Call("download", map_link.url),
                            Call("download", map_link.url) >>
    /\ \/ /\ Fail("RequestException", << "Download failed" >>)
          /\ UNCHANGED response
       \/ \E r \in MapResponses :
          /\ response' = r
          /\ pc' = "parse"
          /\ UNCHANGED << result, log >>
    /\ UNCHANGED << other, settings, colors, urls, map_link, parsed, image,
                    rendered, path_link, path_response >>

(* Line 173, download(map_link), lines 19-27 *)
DownloadMap ==
    /\ pc = "download"
    /\ calls' = Append(calls, Call("download", map_link.url))
    /\ \/ /\ Fail("RequestException", << "Download failed" >>)
          /\ UNCHANGED response
       \/ \E r \in MapResponses :
          /\ response' = r
          /\ pc' = "parse"
          /\ UNCHANGED << result, log >>
    /\ UNCHANGED << other, settings, colors, urls, map_link, parsed, image,
                    rendered, path_link, path_response >>

(* Line 177 *)
ParseMap ==
    /\ pc = "parse"
    /\ calls' = Append(calls, Call("parse_map", ""))
    /\ LET p == parse_map(response)
       IN  /\ parsed' = p
           /\ IF p.ok
              THEN pc' = "render" /\ UNCHANGED << result, log >>
              ELSE Fail(p.err, IF p.logged THEN << "Binary parsing failed" >>
                               ELSE << >>)
    /\ UNCHANGED << other, settings, colors, urls, map_link, response, image,
                    rendered, path_link, path_response >>

(* Line 178 *)
RenderLayout ==
    /\ pc = "render"
    /\ calls' = Append(calls, Call("render_layout", ""))
    /\ \E fails \in BOOLEAN :
       LET r == render_layout(parsed.mapDataArr, parsed.header, colors, fails)
       IN  IF r.ok
           THEN /\ image' = r.image
                /\ rendered' = r.image
                /\ pc' = "path"
                /\ UNCHANGED << result, log >>
           ELSE /\ Fail(r.err, << "Rendering failed" >>)
                /\ UNCHANGED << image, rendered >>
    /\ UNCHANGED << other, settings, colors, urls, map_link, response, parsed,
                    path_link, path_response >>

(* A get_map that runs the path branch whatever the settings say *)
PathEnabled_Always(st) == TRUE

(* Line 181: settings.get("path_enabled", False) *)
PathEnabled(st) == Get(st, "path_enabled", FALSE)

(* A get_map that takes path_enabled out of the caller's settings *)
SelectPathLink_PopsSetting ==
    /\ pc = "path"
    /\ settings' = [ settings EXCEPT !.keys = @ \ { "path_enabled" } ]
    /\ IF ~PathEnabled(settings)
       THEN pc' = "flip" /\ UNCHANGED << path_link, result, log >>
       ELSE LET l == first_map_url(urls.links, 1)
            IN  IF ~l.ok
                THEN Fail(l.err, << >>) /\ UNCHANGED path_link
                ELSE /\ path_link' = l
                     /\ pc' = IF l.url = "" THEN "flip" ELSE "path_download"
                     /\ UNCHANGED << result, log >>
    /\ UNCHANGED << other, colors, urls, calls, map_link, response, parsed,
                    image, rendered, path_response >>

(* Lines 181-187 *)
SelectPathLink ==
    /\ pc = "path"
    /\ IF ~PathEnabled(settings)
       THEN pc' = "flip" /\ UNCHANGED << path_link, result, log >>
       ELSE LET l == first_map_url(urls.links, 1)
            IN  IF ~l.ok
                THEN Fail(l.err, << >>) /\ UNCHANGED path_link
                ELSE /\ path_link' = l
                     /\ pc' = IF l.url = "" THEN "flip" ELSE "path_download"
                     /\ UNCHANGED << result, log >>
    /\ UNCHANGED << other, settings, colors, urls, calls, map_link, response, parsed,
                    image, rendered, path_response >>

(* Line 189, and the except clause of lines 224-225 *)
DownloadPath ==
    /\ pc = "path_download"
    /\ calls' = Append(calls, Call("download", path_link.url))
    /\ \/ /\ log' = log \o << "Download failed", "Path rendering failed" >>
          /\ pc' = "flip"
          /\ UNCHANGED path_response
       \/ \E r \in PathResponses :
          /\ path_response' = r
          /\ pc' = "composite"
          /\ UNCHANGED log
    /\ UNCHANGED << other, settings, colors, urls, map_link, response, parsed, image,
                    rendered, path_link, result >>

(* Lines 190-225 *)
Composite ==
    /\ pc = "composite"
    /\ \E fail \in CompositeCallsMade(image, parsed.header, path_response) :
       LET c == composite(image, parsed.header, colors, path_response, fail)
           p == parse_path(path_response, TargetLongEdge \div image.w,
                           parsed.header)
       IN  /\ image' = c.image
           /\ log' = log
                \o (IF fail # "resize" /\ p.logged
                    THEN << "Path parsing failed" >> ELSE << >>)
                \o (IF c.logged THEN << "Path rendering failed" >> ELSE << >>)
    /\ pc' = "flip"
    /\ UNCHANGED << other, settings, colors, urls, calls, map_link, response, parsed,
                    rendered, path_link, path_response, result >>

(* Line 227 *)
Flip ==
    /\ pc = "flip"
    /\ calls' = Append(calls, Call("flip", ""))
    /\ \E fail \in FlipCallsMade(settings) :
       LET f == flip(parsed.header, image, settings, fail)
       IN  /\ result' = Returned(f.headers, f.image)
           /\ log' = log \o (IF f.logged THEN << "Image transformation failed" >>
                             ELSE << >>)
    /\ pc' = "done"
    /\ UNCHANGED << other, settings, colors, urls, map_link, response, parsed, image,
                    rendered, path_link, path_response >>

(* The locals of a get_map call, as a record: of the call that is running,
   and of no call at all *)
Locals(id) ==
    [ id |-> id, pc |-> pc, urls |-> urls, calls |-> calls,
      map_link |-> map_link, response |-> response, parsed |-> parsed,
      image |-> image, rendered |-> rendered, path_link |-> path_link,
      path_response |-> path_response, result |-> result ]

Idle ==
    [ id |-> 0, pc |-> "idle", urls |-> NoUrls, calls |-> << >>,
      map_link |-> NoLink, response |-> NoResponse, parsed |-> NotParsed,
      image |-> NoImage, rendered |-> NoImage, path_link |-> NoLink,
      path_response |-> NoPathResponse, result |-> NoResult ]

-----------------------------------------------------------------------------
(* Requests.  The full pipeline is run for every palette, link list and
   response, with no settings at all and with path_enabled false and true
   next to a rotation and a flip; SpecFlip runs flip for all settings. *)

RequestSettings ==
    { s \in Settings :
        s.keys = {} \/ (s.rotate = 90 /\ s.flip_vertical /\ ~s.flip_horizontal) }

UrlsArgs == { NoUrls } \cup { UrlsOf(l) : l \in LinkLists }

Init ==
    /\ pc = "start"
    /\ settings \in RequestSettings
    /\ colors \in Palettes
    /\ urls \in UrlsArgs
    /\ calls = << >>
    /\ map_link = NoLink
    /\ response = NoResponse
    /\ parsed = NotParsed
    /\ image = NoImage
    /\ rendered = NoImage
    /\ path_link = NoLink
    /\ path_response = NoPathResponse
    /\ result = NoResult
    /\ log = << >>
    /\ other = Idle

Next ==
    \/ ResolveLinks
    \/ SelectMapLink
    \/ DownloadMap
    \/ ParseMap
    \/ RenderLayout
    \/ SelectPathLink
    \/ DownloadPath
    \/ Composite
    \/ Flip

Spec == Init /\ [][Next]_vars

-----------------------------------------------------------------------------
(* flip on its own: every settings value, on rendered images of every size
   and on images the path branch resized and drew on. *)

FlipHeaders == { Header(ListVersion(1), w, h, << 1, 1 >>) : w \in Dims, h \in Dims }

PlainImage(header) ==
    render_layout(IndexGrid(header.width, header.height), header,
                  CHOOSE p \in Palettes : p.keys = {}, FALSE).image

DrawnImage(header) ==
    composite(PlainImage(header), header, CHOOSE p \in Palettes : p.keys # {},
              [ json |-> FALSE, ok |-> TRUE, pts |-> PathOf(MaxPathPts) ],
              "none").image

InitFlip ==
    /\ pc = "flip"
    /\ settings \in Settings
    /\ colors \in { p \in Palettes : p.keys = {} }
    /\ urls = NoUrls
    /\ calls = << >>
    /\ map_link = NoLink
    /\ response = NoResponse
    /\ \E header \in FlipHeaders :
       /\ parsed = Parsed(TRUE, "", "", header,
                          IndexGrid(header.width, header.height), TRUE, FALSE)
       /\ rendered = PlainImage(header)
       /\ image \in { PlainImage(header), DrawnImage(header) }
    /\ path_link = NoLink
    /\ path_response = NoPathResponse
    /\ result = NoResult
    /\ log = << >>
    /\ other = Idle

NextFlip == Flip

SpecFlip == InitFlip /\ [][NextFlip]_vars

(* flip applied to what flip returned, with the same settings *)
FlipAgain ==
    /\ pc = "done"
    /\ result.kind = "return"
    /\ calls' = Append(calls, Call("flip", ""))
    /\ \E fail \in FlipCallsMade(settings) :
       LET f == flip(result.header, result.image, settings, fail)
       IN  /\ result' = Returned(f.headers, f.image)
           /\ log' = log \o (IF f.logged THEN << "Image transformation failed" >>
                             ELSE << >>)
    /\ pc' = "again"
    /\ UNCHANGED << other, settings, colors, urls, map_link, response, parsed,
                    image, rendered, path_link, path_response >>

NextFlipTwice ==
    \/ Flip
    \/ FlipAgain

SpecFlipTwice == InitFlip /\ [][NextFlipTwice]_vars

(* parse_map on its own: every response *)

InitParse ==
    /\ pc = "parse"
    /\ settings = EmptySettings
    /\ colors \in { p \in Palettes : p.keys = {} }
    /\ urls = NoUrls
    /\ calls = << >>
    /\ map_link = NoLink
    /\ response \in MapResponses
    /\ parsed = NotParsed
    /\ image = NoImage
    /\ rendered = NoImage
    /\ path_link = NoLink
    /\ path_response = NoPathResponse
    /\ result = NoResult
    /\ log = << >>
    /\ other = Idle

NextParse == ParseMap

SpecParse == InitParse /\ [][NextParse]_vars

-----------------------------------------------------------------------------
(* Two get_map calls at once, given the same settings and colors objects.
   One call runs; the locals of the other are held in other.  The calls
   change places where the running one waits for the fetcher (before the map
   download and before the path download) or has ended.  _LOGGER is the one
   logger of the module: both calls write to log. *)

TwoLinks ==
    << [ bad |-> FALSE, has |-> TRUE, map_url |-> "A" ],
       [ bad |-> FALSE, has |-> TRUE, map_url |-> "B" ] >>

(* What the fetcher and the link provider answer in this specification: a
   binary and a structured map of different sizes and one body no decoder
   takes; a binary and a structured path and one no decoder takes *)
TwoMapResponses ==
    { r \in MapResponses :
        \/ r.type = "invalid" /\ r.body_ok /\ r.version = 1
             /\ r.width = 1 /\ r.height = MaxDim /\ r.pile # << >>
        \/ r.struct_ok /\ r.has_map_data /\ ~r.has_result
             /\ r.width = MaxDim /\ r.height = 1 /\ r.pile # << >>
        \/ r.type = "scalar" }

TwoPathResponses ==
    { r \in PathResponses : r.ok => Len(r.pts) = MaxPathPts }

Answers ==
    /\ response' \in TwoMapResponses \cup { NoResponse }
    /\ path_response' \in TwoPathResponses \cup { NoPathResponse }
    /\ urls' \in { NoUrls, UrlsOf(TwoLinks) }

(* The running call waits or has ended, and the other call goes on *)
Switch ==
    /\ pc \in { "download", "path_download", "done", "failed" }
    /\ other.pc \notin { "idle", "done", "failed" }
    /\ other' = Locals(3 - other.id)
    /\ pc' = other.pc
    /\ urls' = other.urls
    /\ calls' = other.calls
    /\ map_link' = other.map_link
    /\ response' = other.response
    /\ parsed' = other.parsed
    /\ image' = other.image
    /\ rendered' = other.rendered
    /\ path_link' = other.path_link
    /\ path_response' = other.path_response
    /\ result' = other.result
    /\ UNCHANGED << settings, colors, log >>

InitTwo ==
    /\ pc = "start"
    /\ settings \in RequestSettings
    /\ colors \in Palettes
    /\ urls \in { NoUrls, UrlsOf(TwoLinks) }
    /\ calls = << >>
    /\ map_link = NoLink
    /\ response = NoResponse
    /\ parsed = NotParsed
    /\ image = NoImage
    /\ rendered = NoImage
    /\ path_link = NoLink
    /\ path_response = NoPathResponse
    /\ result = NoResult
    /\ log = << >>
    /\ \E u \in { NoUrls, UrlsOf(TwoLinks) } :
         other = [ Idle EXCEPT !.id = 2, !.pc = "start", !.urls = u ]

NextTwo ==
    \/ Next /\ Answers
    \/ Switch

SpecTwo == InitTwo /\ [][NextTwo]_vars

-----------------------------------------------------------------------------
(* The path branch on its own, from the fetched path response on: rasters
   of every small width and of widths at which 1080 / width is 2, 1 and 0,
   of every format, with and without a dock *)

ScaleWidths == Dims \cup { 540, 541, 1080, 1081 }

ScaleHeaders ==
    { Header(v, w, 1, p) :
        v \in { ListVersion(0), ListVersion(1), StrVersion("custom0") },
        w \in ScaleWidths, p \in Piles }

InitScale ==
    /\ pc = "composite"
    /\ settings \in { st \in RequestSettings : PathEnabled(st) }
    /\ colors \in Palettes
    /\ urls = UrlsOf(TwoLinks)
    /\ calls = << >>
    /\ map_link = first_map_url(TwoLinks, 0)
    /\ response = NoResponse
    /\ \E header \in ScaleHeaders :
       /\ parsed = Parsed(TRUE, "", "", header,
                          IndexGrid(header.width, header.height),
                          header.version.isList, FALSE)
       /\ rendered = render_layout(parsed.mapDataArr, header, colors, FALSE).image
       /\ image = rendered
    /\ path_link = first_map_url(TwoLinks, 1)
    /\ path_response \in PathResponses
    /\ result = NoResult
    /\ log = << >>
    /\ other = Idle

NextScale == Composite

SpecScale == InitScale /\ [][NextScale]_vars

-----------------------------------------------------------------------------
(* Properties *)

Called(fn) == \E i \in DOMAIN calls : calls[i].fn = fn
Downloads == Cardinality({ i \in DOMAIN calls : calls[i].fn = "download" })
Logged(message) == \E i \in DOMAIN log : log[i] = message

(* The image is the one render_layout returned: the raster's size, nothing
   drawn on it *)
Untouched(img) ==
    /\ img = rendered
    /\ img.w = parsed.header.width /\ img.h = parsed.header.height
    /\ img.line = << >> /\ img.dock = << >>

(* C1: when path_enabled is false or absent, download is called for the map
   link only, no path link is chosen and no path response held, and the
   image get_map hands to flip is the image render_layout returned, not
   resized, with no polyline and no dock marker. *)
C1_NoPathStageWhenDisabled ==
    ~Get(settings, "path_enabled", FALSE) =>
        /\ Downloads <= 1
        /\ \A i \in DOMAIN calls :
             calls[i].fn = "download" => calls[i].arg = map_link.url /\ i <= 2
        /\ pc \notin { "path_download", "composite" }
        /\ path_link = NoLink
        /\ pc \in { "flip", "done" } => Untouched(image)
        /\ pc = "done" => Called("flip")

(* C1 witness: a request without path_enabled, whose link list offers a
   path link, has returned. *)
C1_Witness ==
    /\ pc = "done"
    /\ result.kind = "return"
    /\ ~Get(settings, "path_enabled", FALSE)
    /\ first_map_url(urls.links, 1).url # ""

(* C2: a body that reaches binary header decoding and whose header version
   is neither 0 nor 1 makes parse_map raise (from NotSupportedError) and
   get_map raise; render_layout is never called, nothing is fetched after
   the map blob, and no image exists. *)
C2_UnsupportedVersionFails ==
    (parsed.fallback /\ response.header_ok /\ response.version \notin { 0, 1 }) =>
        /\ ~parsed.ok
        /\ parsed.err = "ValueError: Failed to parse map data in any supported format"
        /\ parsed.cause = "NotSupportedError"
        /\ pc = "failed"
        /\ result.kind = "raise"
        /\ result.image = NoImage
        /\ ~Called("render_layout") /\ ~Called("flip")
        /\ Downloads = 1
        /\ image = NoImage /\ rendered = NoImage

(* C2 witness: a version 2 header was decoded and the request failed. *)
C2_Witness ==
    /\ pc = "failed"
    /\ parsed.fallback
    /\ response.header_ok
    /\ response.version = 2

(* C3: an error while resolving the links, choosing the map link, fetching
   the map blob, in parse_map or in render_layout ends get_map with
   ValueError "Failed to process map data" raised from that error, whatever
   it is, and nothing returned; a request that returns passed all of these
   stages. *)
C3_EarlyErrorsAreWrapped ==
    /\ pc = "failed" <=> result.kind = "raise"
    /\ pc = "done" <=> result.kind = "return"
    /\ result.kind = "raise" =>
         /\ result.err = "ValueError: Failed to process map data"
         /\ result.cause # ""
         /\ result.image = NoImage /\ result.header = NoHeader
    /\ (Called("parse_map") /\ ~parsed.ok) =>
         pc = "failed" /\ result.cause = parsed.err
    /\ Logged("Rendering failed") =>
         pc = "failed" /\ result.cause \in { "ValueError", "NotSupportedError" }
    /\ (Logged("Download failed") /\ ~Called("parse_map")) =>
         pc = "failed" /\ result.cause = "RequestException"
    /\ Logged("Invalid link response structure") =>
         pc = "failed" /\ result.cause = "ValueError: Invalid API response format"
    /\ Logged("No map URL found in response") =>
         pc = "failed" /\ result.cause = "ValueError: No map URL available"
    /\ (Called("get_download_link") /\ urls = NoUrls) => pc = "failed"
    /\ pc = "done" =>
         /\ map_link.url # "" /\ parsed.ok /\ rendered # NoImage
         /\ ~Logged("Map processing failed")

(* C3 witness: parse_map raised a TypeError, which is neither an error of
   the fetcher nor of a decoder, and get_map raised from it. *)
C3_Witness ==
    /\ pc = "failed"
    /\ Called("parse_map")
    /\ parsed.err = "TypeError"
    /\ result.cause = "TypeError"

-----------------------------------------------------------------------------
(* Pixels at which an image and a transform of it are compared: the corner
   pixels, the vertices of the polyline and the centre of the dock marker,
   and their mirror images. *)

Marks(img) ==
    { 0, 1 } \cup { img.line[i] : i \in DOMAIN img.line }
             \cup { img.dock[i] : i \in DOMAIN img.dock }

Columns(img) ==
    { x \in Marks(img) \cup { img.w - 1 - m : m \in Marks(img) } :
        0 <= x /\ x < img.w }

Rows(img) ==
    { y \in Marks(img) \cup { img.h - 1 - m : m \in Marks(img) } :
        0 <= y /\ y < img.h }

(* out is img with the order of its rows reversed *)
RowsReversed(out, img) ==
    /\ out.w = img.w /\ out.h = img.h
    /\ \A x \in Columns(img), y \in Rows(img) :
         Pixel(out, x, y) = Pixel(img, x, img.h - 1 - y)

(* out is img with the order of its columns reversed *)
ColumnsReversed(out, img) ==
    /\ out.w = img.w /\ out.h = img.h
    /\ \A x \in Columns(img), y \in Rows(img) :
         Pixel(out, x, y) = Pixel(img, img.w - 1 - x, y)

(* out shows what img shows *)
SameImage(out, img) ==
    /\ out.w = img.w /\ out.h = img.h
    /\ \A x \in Columns(img), y \in Rows(img) :
         Pixel(out, x, y) = Pixel(img, x, y)

(* The path branch was entered and something in it failed *)
PathBranchFailed ==
    Logged("Path rendering failed") \/ Logged("Path parsing failed")

(* C4: with path_enabled true, when a step of the path branch fails the
   image handed to flip is the image render_layout returned: the raster's
   size, no polyline and no dock marker on it. *)
C4_FailedPathBranchLeavesRendered ==
    (Get(settings, "path_enabled", FALSE) /\ pc \in { "flip", "done" }
       /\ PathBranchFailed)
    => Untouched(image)

(* C5: once render_layout has returned an image, get_map does not raise. *)
C5_NoFailureAfterRender ==
    rendered # NoImage => (pc # "failed" /\ result.kind # "raise")

(* C6: the entry the path link is taken from lies strictly after the entry
   the map link is taken from, and is the first entry after it that
   carries "map_url". *)
C6_PathEntryFollowsMapEntry ==
    path_link.at # 0 =>
        /\ path_link.at > map_link.at
        /\ \A j \in (map_link.at + 1)..(path_link.at - 1) : ~urls.links[j].has

(* C7: a body that parses as structured data, of whatever shape, with
   neither a "result" key holding a list nor a "map_data" key is parsed as
   binary: parse_map falls back, and returns or raises what the binary
   attempt on the same response does. *)
C7_UnrecognizedJsonFallsThrough ==
    (Called("parse_map") /\ response.type # "invalid"
       /\ ~(response.type = "dict" /\ response.has_result /\ response.result_is_list)
       /\ ~(response.type = "dict" /\ response.has_map_data))
    => (parsed.fallback /\ parsed = BinaryFallback(response))

(* C8: when a step of flip fails, flip returns the image it was given, with
   none of the transforms applied, and the request returns. *)
C8_FailedFlipReturnsInput ==
    (pc = "done" /\ Logged("Image transformation failed"))
    => (result.kind = "return" /\ SameImage(result.image, image))

(* The path branch ran to its end: the image was resized and nothing in
   the branch raised *)
PathBranchCompleted ==
    /\ pc \in { "flip", "done" }
    /\ Called("flip") \/ pc = "flip"
    /\ image.w = rendered.w * (TargetLongEdge \div rendered.w)
    /\ image.w # rendered.w
    /\ ~PathBranchFailed

(* C9: in the path branch, a header with pileX and pileY gets its dock
   marker drawn at the scaled dock position, whether or not the decoded
   path has points. *)
C9_DockDrawnWheneverPresent ==
    (PathBranchCompleted /\ HasDock(parsed.header))
    => image.dock = DockPoint(parsed.header, TargetLongEdge \div rendered.w)

(* C10: without rotation, flip_vertical alone reverses the order of the
   rows, flip_horizontal alone reverses the order of the columns, and with
   neither flag the image is unchanged. *)
C10_FlagsFlipTheirOwnAxis ==
    (pc = "done" /\ ~Logged("Image transformation failed")
       /\ Get(settings, "rotate", 0) \notin { 90, 180, -90, 270 })
    => LET v == Get(settings, "flip_vertical", FALSE)
           h == Get(settings, "flip_horizontal", FALSE)
       IN  /\ (v /\ ~h) => RowsReversed(result.image, image)
           /\ (h /\ ~v) => ColumnsReversed(result.image, image)
           /\ (~v /\ ~h) => SameImage(result.image, image)

-----------------------------------------------------------------------------
(* The operations flip applied, in order: those of the returned image that
   the image handed to flip did not have yet *)
Applied ==
    SubSeq(result.image.ops, Len(image.ops) + 1, Len(result.image.ops))

Turns == { i \in DOMAIN Applied : Applied[i].op = "rotate" }

(* C11: flip rotates the image exactly when settings.rotate is 90, 180, 270
   or -90, by that angle; with any other value, or none, no rotation is
   applied; and the rotation is the first operation applied, before either
   flip.  Nothing but rotations and flips is done to the image. *)
C11_RotatesFirstAndOnlyListedAngles ==
    (pc = "done" /\ ~Logged("Image transformation failed"))
    => LET rot == Get(settings, "rotate", 0)
       IN  /\ Len(result.image.ops) >= Len(image.ops)
           /\ [ result.image EXCEPT !.ops = image.ops ] = image
           /\ rot \in { 90, 180, 270, -90 } =>
                 Turns = { 1 } /\ Applied[1].angle = rot
           /\ rot \notin { 90, 180, 270, -90 } => Turns = {}
           /\ (rot = 180 /\ Len(Applied) = 1) =>
                 \A x \in Columns(image), y \in Rows(image) :
                   Pixel(result.image, x, y)
                     = Pixel(image, image.w - 1 - x, image.h - 1 - y)
           /\ (Turns = {} /\ Len(Applied) = 0) => SameImage(result.image, image)

(* C11 witness: flip returned after a rotation by -90 and both flips. *)
C11_Witness ==
    /\ pc = "done"
    /\ ~Logged("Image transformation failed")
    /\ Get(settings, "rotate", 0) = 0 - 90
    /\ Get(settings, "flip_vertical", FALSE)
    /\ Get(settings, "flip_horizontal", FALSE)
    /\ Len(Applied) = 3

-----------------------------------------------------------------------------
(* The locals of call i of two *)
Req(i) == IF other.id = i THEN other ELSE Locals(i)

(* What the call with locals q holds is what get_map computes on its own
   from the caller's settings and colors, the call's own urls and the
   responses the call itself received *)
Alone(q) ==
    /\ q.map_link # NoLink => q.map_link = first_map_url(q.urls.links, 0)
    /\ q.pc \in { "render", "path", "path_download", "composite", "flip", "done" }
         => q.parsed.ok /\ q.parsed = parse_map(q.response)
    /\ q.pc \in { "path", "path_download", "composite", "flip", "done" }
         => /\ q.rendered = render_layout(q.parsed.mapDataArr, q.parsed.header,
                                          colors, FALSE).image
            /\ q.rendered # NoImage
    /\ q.pc \in { "path", "path_download", "composite" } => q.image = q.rendered
    /\ q.pc \in { "path_download", "composite" }
         => /\ PathEnabled(settings)
            /\ q.path_link = first_map_url(q.urls.links, 1)
    /\ q.pc \in { "flip", "done" } =>
         \/ q.image = q.rendered
         \/ /\ PathEnabled(settings)
            /\ \E f \in CompositeCallsMade(q.rendered, q.parsed.header,
                                           q.path_response) :
                 q.image = composite(q.rendered, q.parsed.header, colors,
                                     q.path_response, f).image
    /\ q.pc = "done" =>
         \E f \in FlipCallsMade(settings) :
           LET r == flip(q.parsed.header, q.image, settings, f)
           IN  q.result = Returned(r.headers, r.image)
    /\ q.pc = "failed" => q.result.kind = "raise"
    /\ q.pc \notin { "done", "failed" } => q.result = NoResult

(* A step leaves the caller's settings and colors as they are, changes the
   locals of at most one call, and leaves the urls a call was given or
   obtained as they are *)
KeepsToItself ==
    /\ settings' = settings
    /\ colors' = colors
    /\ Req(1)' = Req(1) \/ Req(2)' = Req(2)
    /\ \A i \in { 1, 2 } : Req(i).urls # NoUrls => Req(i)'.urls = Req(i).urls

(* C12: of two get_map calls that take turns where they wait for the
   fetcher, each holds and returns what it computes on its own from its
   inputs and the responses it received: no step writes the settings or
   colors the caller supplied or the urls a call holds, and no step of one
   call changes a local of the other. *)
C12_CallsDoNotInterfere ==
    /\ [](Alone(Req(1)) /\ Alone(Req(2)))
    /\ [][KeepsToItself]_vars

(* C12 witness: the first call has returned an image with a path on it
   after the second call, started while the first one waited, got as far as
   its own path download. *)
C12_Witness ==
    /\ other.id = 2
    /\ other.pc = "path_download"
    /\ pc = "done"
    /\ result.kind = "return"
    /\ image.line # << >>
    /\ other.rendered # rendered

-----------------------------------------------------------------------------
(* The points the path decoder parse_path applies makes of the path
   response *)
DecodedPath ==
    IF path_response.json THEN decode_path_custom0(path_response, parsed.header)
    ELSE decode_path_v1(path_response)

(* The dock position in raster cells, as the map's format maps it *)
MappedDock ==
    IF parsed.header.version.isList
    THEN format_path_point(parsed.header.pileX, parsed.header.pileY)
    ELSE map_to_image(<< parsed.header.pileX, parsed.header.pileY >>,
                      parsed.header.mapResolution, parsed.header.x_min,
                      parsed.header.y_min)

(* C13: when the path branch ends without a failure, with
   scale = 1080 div (raster width): the image is (width * scale) by
   (height * scale); the polyline holds, in the decoder's order, the x and
   the y of every decoded point times scale; and a dock marker that is
   drawn has its centre at the mapped dock position times scale, so that
   twice the scale gives twice the offset. *)
C13_OneScaleThroughout ==
    (pc = "flip" /\ ~PathBranchFailed)
    => LET scale == TargetLongEdge \div rendered.w
           d == DecodedPath
       IN  /\ image.w = rendered.w * scale
           /\ image.h = rendered.h * scale
           /\ d.ok
           /\ Len(image.line) = 2 * Len(d.pts)
           /\ \A i \in DOMAIN d.pts :
                /\ image.line[2 * i - 1] = d.pts[i][1] * scale
                /\ image.line[2 * i] = d.pts[i][2] * scale
           /\ image.dock # << >> =>
                /\ image.dock = << MappedDock[1] * scale, MappedDock[2] * scale >>
                /\ DockPoint(parsed.header, 2 * scale)
                     = << 2 * image.dock[1], 2 * image.dock[2] >>

(* C13 witness: a 540 cells wide structured map, scale 2, got the longest
   path and its dock marker drawn. *)
C13_Witness ==
    /\ pc = "flip"
    /\ ~PathBranchFailed
    /\ rendered.w = 540
    /\ image.w = TargetLongEdge
    /\ ~parsed.header.version.isList
    /\ Len(image.line) = 2 * MaxPathPts
    /\ image.dock = << 4, 4 >>

-----------------------------------------------------------------------------
(* out and img have the same size and, if img is small, the same colour at
   every pixel; if it is large, at every pixel SameImage compares *)
SamePixels(out, img) ==
    /\ SameImage(out, img)
    /\ img.w <= MaxDim + 1 /\ img.h <= MaxDim + 1 =>
         \A x \in 0..(img.w - 1), y \in 0..(img.h - 1) :
           Pixel(out, x, y) = Pixel(img, x, y)

(* C14: flip with rotate = 180 and both flip flags false, applied to an
   image and then to its own result, returns an image of the same size with
   the pixels of the original. *)
C14_HalfTurnTwiceIsIdentity ==
    (pc = "again" /\ ~Logged("Image transformation failed")
       /\ Get(settings, "rotate", 0) = 180
       /\ ~Get(settings, "flip_vertical", FALSE)
       /\ ~Get(settings, "flip_horizontal", FALSE))
    => SamePixels(result.image, image)

(* C14 witness: an image that is not square, with a path and a dock marker
   on it, went through two half turns. *)
C14_Witness ==
    /\ pc = "again"
    /\ ~Logged("Image transformation failed")
    /\ Get(settings, "rotate", 0) = 180
    /\ ~Get(settings, "flip_vertical", FALSE)
    /\ ~Get(settings, "flip_horizontal", FALSE)
    /\ Len(Applied) = 2
    /\ image.w # image.h
    /\ image.line # << >> /\ image.dock # << >>

-----------------------------------------------------------------------------
(* The functions called so far, in order *)
FnSeq == [ i \in DOMAIN calls |-> calls[i].fn ]

IsPrefix(a, b) == Len(a) <= Len(b) /\ SubSeq(b, 1, Len(a)) = a

(* The calls of a request that returns: the link provider or not, then the
   map download, parse_map, render_layout, the path download or not, flip *)
CallOrders ==
    { provider \o << "download", "parse_map", "render_layout" >> \o path
        \o << "flip" >> :
      provider \in { << >>, << "get_download_link" >> },
      path \in { << >>, << "download" >> } }

(* C15: the calls of a request are, in this order and each at most once:
   the link provider, made exactly when no urls were supplied; the map
   download, for the map link, before parse_map; render_layout; the path
   download, for the path link, only after render_layout returned an image;
   and flip, which is the last call of every request that returns. *)
C15_CallsOnceInOrder ==
    /\ [](/\ \E run \in CallOrders : IsPrefix(FnSeq, run)
          /\ pc = "done" => FnSeq \in CallOrders
          /\ \A i \in DOMAIN calls :
               calls[i].fn = "download" =>
                 IF i <= 2 /\ \A j \in 1..(i - 1) : calls[j].fn # "download"
                 THEN calls[i].arg = map_link.url
                 ELSE calls[i].arg = path_link.url /\ rendered # NoImage
          /\ Called("parse_map") => Downloads >= 1)
    /\ [][/\ IsPrefix(calls, calls')
          /\ pc = "start" =>
               calls' = IF urls = NoUrls
                        THEN << Call("get_download_link", "") >> ELSE << >>]_vars

(* C15 witness: a request without urls returned after all six calls. *)
C15_Witness ==
    /\ pc = "done"
    /\ FnSeq = << "get_download_link", "download", "parse_map",
                  "render_layout", "download", "flip" >>

-----------------------------------------------------------------------------
(* C16: when the structured attempt of parse_map fails, because the body is
   no structured data or because the structured decoder raises on a body
   with a recognized key, parse_map attempts the binary decoding of the
   same body, and what it returns or raises is what that attempt gives. *)
C16_BinaryAttemptAfterAnyStructuredFailure ==
    (Called("parse_map")
       /\ \/ response.type = "invalid"
          \/ Recognized(response) /\ ~decode_custom0(response).ok)
    => (parsed.fallback /\ parsed = BinaryFallback(response))

-----------------------------------------------------------------------------
(* What the path decoder of the map's own format makes of the path
   response: decode_path_v1 for a binary (Legacy or Rich) header,
   decode_path_custom0 with the header for a structured one *)
FormatDecodedPath ==
    IF parsed.header.version.isList THEN decode_path_v1(path_response)
    ELSE decode_path_custom0(path_response, parsed.header)

(* C17: a polyline that is drawn holds the points the path decoder of the
   map's own format decodes from the path response, times the scale: the
   binary decoder for a Legacy or Rich header, the structured decoder with
   the header's mapResolution, x_min and y_min for a Structured one. *)
C17_PathDecoderOfMapFormat ==
    (PathBranchCompleted /\ image.line # << >>)
    => /\ path_response.json = ~parsed.header.version.isList
       /\ image.line = ScaledCoords(FormatDecodedPath.pts,
                                    TargetLongEdge \div rendered.w)

-----------------------------------------------------------------------------
(* The format whose decoder gave parse_map the grid: 2 the structured
   decoder, 0 decode_v0, 1 decode_v1 *)
DecodedAs ==
    IF ~parsed.fallback THEN 2
    ELSE IF parsed.mapDataArr = decode_v0(response, parsed.header).data THEN 0
    ELSE 1

(* C18: a grid parse_map returns after the fallback was decoded by
   decode_v0 iff the header version is [0] and by decode_v1 iff it is [1];
   the image render_layout returns was rasterized by the variant of the
   decoder parse_map used; and a dock marker that is drawn is at the
   position _format_path_point gives for a Legacy or Rich map and at the
   position map_to_image gives for a Structured one. *)
C18_OneVariantPerRequest ==
    /\ (Called("parse_map") /\ parsed.ok /\ parsed.fallback) =>
         /\ parsed.header.version \in { ListVersion(0), ListVersion(1) }
         /\ parsed.header.version = ListVersion(0)
              <=> parsed.mapDataArr = decode_v0(response, parsed.header).data
         /\ parsed.header.version = ListVersion(1)
              <=> parsed.mapDataArr = decode_v1(response, parsed.header).data
    /\ (Called("parse_map") /\ parsed.ok /\ ~parsed.fallback) =>
         /\ parsed.header = decode_custom0(response).header
         /\ parsed.mapDataArr = decode_custom0(response).data
    /\ rendered # NoImage =>
         rendered = fromarray(to_array(DecodedAs, parsed.mapDataArr,
                                       parsed.header.width,
                                       parsed.header.height, colors))
    /\ image.dock # << >> =>
         LET scale == TargetLongEdge \div rendered.w
             point == IF DecodedAs \in { 0, 1 }
                      THEN format_path_point(parsed.header.pileX,
                                             parsed.header.pileY)
                      ELSE map_to_image(<< parsed.header.pileX,
                                           parsed.header.pileY >>,
                                        parsed.header.mapResolution,
                                        parsed.header.x_min,
                                        parsed.header.y_min)
         IN  image.dock = << point[1] * scale, point[2] * scale >>

(* C18 witness: a Rich map was decoded, rasterized, and given its path and
   dock marker, and the request returned. *)
C18_Witness ==
    /\ pc = "done"
    /\ parsed.fallback
    /\ DecodedAs = 1
    /\ rendered.w * rendered.h > 1
    /\ image.dock # << >>

-----------------------------------------------------------------------------
(* C19: from the return of parse_map on, through render_layout, the path
   branch, whether it is skipped, fails or succeeds, and flip, the header
   get_map holds is the header parse_map made of the response, field for
   field, and it is the header a request that returns returns. *)
C19_HeaderIsParseMapsHeader ==
    LET header == parse_map(response).header
    IN  /\ pc \in { "render", "path", "path_download", "composite", "flip", "done" }
             => parsed.ok /\ parsed.header = header
        /\ pc = "done" => result.header = header
        /\ (pc = "failed" /\ Called("render_layout")) => parsed.header = header

(* C19 witness: a request for a map that is not square returned after a
   path was drawn and the image was turned by 90 degrees. *)
C19_Witness ==
    /\ pc = "done"
    /\ result.kind = "return"
    /\ result.header.width # result.header.height
    /\ image.line # << >>
    /\ Get(settings, "rotate", 0) = 90
    /\ Len(result.image.ops) = 2

====
